---- MODULE Spec2Model ----
(***************************************************************************)
(* A model of compiler/util.py: the import resolver (Path), the import     *)
(* visitor (ImportVisitor) and the Go code writer (Writer), together with  *)
(* the execution of the function wrapper that Writer.write_block emits.    *)
(*                                                                         *)
(* Conventions                                                             *)
(*   - a dotted module name 'a.b.c' is the sequence <<"a","b","c">>, so    *)
(*     name.split('.') is the sequence itself, name.count('.') is          *)
(*     Len(name) - 1 and '{}.{}'.format(x, y) is x \o y;                   *)
(*   - a file name 'd/e/f.py' is the sequence <<"d","e","f.py">>, so       *)
(*     os.path.join is \o and os.path.split cuts off the last element;     *)
(*   - None, '' and [] are all the empty sequence <<>>: the code only ever *)
(*     tests these values for truth;                                       *)
(*   - an absent alias (asname None) is the empty string "".               *)
(***************************************************************************)
EXTENDS Integers, Sequences, FiniteSets, TLC

VARIABLES
  fs,        \* the files that exist (os.path.isfile)
  config,    \* the arguments Path was constructed with
  path,      \* the Path object: dirs, package_dir, package_name
  imports,   \* ImportVisitor.imports
  node,      \* the statement handed to the last visit_* call
  base,      \* Len(imports) when that call started
  raised,    \* the exception that call ended in, "" when it returned
  calls,     \* the names that call passed to Path.resolve_import, in order
  query,     \* the argument of the last direct Path.resolve_import call
  result,    \* what that call returned
  w,         \* the Writer object: out (lines written), indent_level
  todo,      \* the statements of the running Writer method still to execute
  regions,   \* the caller's open `with writer.indent_block(n)` regions
  left,      \* the last region the caller left: n, depth before, depth after
  ops,       \* the number of Writer methods called so far
  invoked,   \* the last Writer method called, its Block, Len(out) at the call
  block_,    \* the Block handed to write_block
  body_,     \* the body text handed to write_block
  prog,      \* the lines write_block emitted for block_
  phase,     \* "emit", "run", "post" (the loop's post statement), "done", "panic"
  pc,        \* the line of prog that executes next
  piE,       \* the pending-failure slot of the emitted function
  frame,     \* the frame piF: state and checkpoint stack
  ret        \* what the emitted function returned

importVars == <<fs, config, path, imports, node, base, raised, calls, query, result>>
writerVars == <<w, todo, regions, left, ops, invoked>>
runVars == <<block_, body_, prog, phase, pc, piE, frame, ret>>
vars == <<importVars, writerVars, runVars>>

None == <<>>

Max(a, b) == IF a >= b THEN a ELSE b

Last(s) == s[Len(s)]

Front(s) == SubSeq(s, 1, Len(s) - 1)

(***************************************************************************)
(* Path                                                                    *)
(***************************************************************************)

\* '__go__.' without its trailing dot: a name starts with the prefix when
\* its first component is this one and another component follows.
NATIVE_MODULE_PREFIX == "__go__"

startswith_native(name) == Len(name) >= 2 /\ name[1] = NATIVE_MODULE_PREFIX

\* prefix + '.py' for the last component of a path.
py(c) ==
  CASE c = "a" -> "a.py"
    [] c = "b" -> "b.py"
    [] c = "c" -> "c.py"
    [] c = "p" -> "p.py"
    [] c = "s" -> "s.py"
    [] c = "x" -> "x.py"
    [] c = "__go__" -> "__go__.py"
    [] c = "__future__" -> "__future__.py"
    [] OTHER -> "other.py"

isfile(f) == f \in fs

find_script(dirname, name) ==
  LET prefix == dirname \o name
      script == Front(prefix) \o <<py(Last(prefix))>>
      init == prefix \o <<"__init__.py">>
  IN IF prefix # <<>> /\ isfile(script) THEN script
     ELSE IF isfile(init) THEN init
     ELSE None

search_dir(d) == <<d, "src", "__python__">>

Path_init(gopath, modname, script) ==
  LET dirs == IF gopath # <<>>
              THEN [i \in 1..Len(gopath) |-> search_dir(gopath[i])]
              ELSE <<>>
      dirname == Front(script)
      basename == Last(script)
  IN IF basename = "__init__.py"
     THEN [dirs |-> dirs, package_dir |-> dirname, package_name |-> modname]
     ELSE IF Len(modname) > 1 /\ isfile(dirname \o <<"__init__.py">>)
     THEN [dirs |-> dirs, package_dir |-> dirname,
           package_name |-> Front(modname)]
     ELSE [dirs |-> dirs, package_dir |-> None, package_name |-> None]

RECURSIVE search_dirs(_, _, _)
search_dirs(dirs, i, modname) ==
  IF i > Len(dirs) THEN [full_name |-> None, script |-> None]
  ELSE LET script == find_script(dirs[i], modname)
       IN IF script # None THEN [full_name |-> modname, script |-> script]
          ELSE search_dirs(dirs, i + 1, modname)

package_lookup(self, modname) ==
  IF self.package_dir # <<>>
  THEN find_script(self.package_dir, modname)
  ELSE None

resolve_import(self, modname) ==
  LET script == package_lookup(self, modname)
  IN IF script # None
     THEN [full_name |-> self.package_name \o modname, script |-> script]
     ELSE search_dirs(self.dirs, 1, modname)

(***************************************************************************)
(* Import and ImportVisitor                                                *)
(***************************************************************************)

Import_MODULE == "<BindType 'module'>"

Import_MEMBER == "<BindType 'member'>"

Binding(bind_type, alias, value) ==
  [bind_type |-> bind_type, alias |-> alias, value |-> value]

Import(name, is_native) ==
  [name |-> name, is_native |-> is_native, bindings |-> <<>>]

add_binding(imp, bind_type, alias, value) ==
  [imp EXCEPT !.bindings = Append(@, Binding(bind_type, alias, value))]

count_dots(name) == Len(name) - 1

\* The state a visit_* call works on: the imports list, the exception it
\* ended in and the resolve_import calls it made.
Visit(imps) == [imports |-> imps, raised |-> "", calls |-> <<>>]

raise(st, exc) == [st EXCEPT !.raised = exc]

called(st, name) == [st EXCEPT !.calls = Append(@, name)]

appended(st, imp) == [st EXCEPT !.imports = Append(@, imp)]

\* plain_binding with the aliased binding exposing index 0.
plain_binding_first_module(alias, imp) ==
  IF alias.asname # ""
  THEN add_binding(imp, Import_MODULE, alias.asname, 0)
  ELSE LET parts == alias.name
       IN add_binding(imp, Import_MODULE, parts[Len(parts)],
                      count_dots(imp.name) - Len(parts) + 1)

\* visit_Import, lines 148-153: the binding of one resolved name.
plain_binding(alias, imp) ==
  IF alias.asname # ""
  THEN add_binding(imp, Import_MODULE, alias.asname, count_dots(imp.name))
  ELSE LET parts == alias.name
       IN add_binding(imp, Import_MODULE, parts[Len(parts)],
                      count_dots(imp.name) - Len(parts) + 1)

RECURSIVE visit_Import_names(_, _, _, _)
visit_Import_names(self, names, i, st) ==
  IF i > Len(names) THEN st
  ELSE LET alias == names[i]
       IN IF startswith_native(alias.name) THEN raise(st, "ImportError")
          ELSE LET full_name == resolve_import(self, alias.name).full_name
                   st1 == called(st, alias.name)
               IN IF full_name = None THEN raise(st1, "ImportError")
                  ELSE visit_Import_names(self, names, i + 1,
                         appended(st1, plain_binding(alias, Import(full_name, FALSE))))

visit_Import(self, n, imps) == visit_Import_names(self, n.names, 1, Visit(imps))

local_name(alias) == IF alias.asname # "" THEN alias.asname ELSE alias.name

RECURSIVE native_bindings(_, _, _)
native_bindings(imp, names, i) ==
  IF i > Len(names) THEN imp
  ELSE native_bindings(
         add_binding(imp, Import_MEMBER, local_name(names[i]), names[i].name),
         names, i + 1)

\* member_import without the test of member_imp: the module is resolved, and
\* an Import appended, for every member.
member_import_every_time(self, n, st, member_imp) ==
  LET full_name == resolve_import(self, n.module).full_name
      st1 == called(st, n.module)
  IN IF full_name = None
     THEN [st |-> raise(st1, "ImportError"), member_imp |-> 0]
     ELSE [st |-> appended(st1, Import(full_name, FALSE)),
           member_imp |-> Len(st1.imports) + 1]

\* visit_ImportFrom, lines 185-188: member_imp is the position in imports of
\* the Import of node.module, 0 while the code's member_imp is None.
member_import(self, n, st, member_imp) ==
  IF member_imp = 0
  THEN LET full_name == resolve_import(self, n.module).full_name
           st1 == called(st, n.module)
       IN IF full_name = None
          THEN [st |-> raise(st1, "ImportError"), member_imp |-> 0]
          ELSE [st |-> appended(st1, Import(full_name, FALSE)),
                member_imp |-> Len(st1.imports) + 1]
  ELSE [st |-> st, member_imp |-> member_imp]

RECURSIVE visit_ImportFrom_names(_, _, _, _, _)
visit_ImportFrom_names(self, n, i, st, member_imp) ==
  IF i > Len(n.names) THEN st
  ELSE LET alias == n.names[i]
           asname == local_name(alias)
           submodule == Append(n.module, alias.name)
           full_name == resolve_import(self, submodule).full_name
           st1 == called(st, submodule)
       IN IF full_name # None
          THEN visit_ImportFrom_names(self, n, i + 1,
                 appended(st1, add_binding(Import(full_name, FALSE), Import_MODULE,
                                           asname, count_dots(full_name))),
                 member_imp)
          ELSE LET m == member_import(self, n, st1, member_imp)
               IN IF m.st.raised # "" THEN m.st
                  ELSE visit_ImportFrom_names(self, n, i + 1,
                         [m.st EXCEPT !.imports[m.member_imp] =
                            add_binding(@, Import_MEMBER, asname, alias.name)],
                         m.member_imp)

\* visit_ImportFrom with the wildcard test after the two early returns.
visit_ImportFrom_late_wildcard(self, n, imps) ==
  LET st == Visit(imps)
  IN IF n.module = <<"__future__">> THEN st
     ELSE IF startswith_native(n.module)
     THEN appended(st, native_bindings(Import(Tail(n.module), TRUE), n.names, 1))
     ELSE IF \E i \in 1..Len(n.names) : n.names[i].name = "*"
     THEN raise(st, "ImportError")
     ELSE visit_ImportFrom_names(self, n, 1, st, 0)

visit_ImportFrom(self, n, imps) ==
  LET st == Visit(imps)
  IN IF \E i \in 1..Len(n.names) : n.names[i].name = "*"
     THEN raise(st, "ImportError")
     ELSE IF n.module = <<"__future__">> THEN st
     ELSE IF startswith_native(n.module)
     THEN appended(st, native_bindings(Import(Tail(n.module), TRUE), n.names, 1))
     ELSE visit_ImportFrom_names(self, n, 1, st, 0)

(***************************************************************************)
(* The import specification: a file system, a Path constructed over it,    *)
(* and one call of resolve_import, visit_Import or visit_ImportFrom.       *)
(***************************************************************************)

\* The longest list of names in one import statement.
MaxNames == 2

SeqsUpTo(S, n) == UNION {[1..k -> S] : k \in 1..n}

Files ==
  { <<"p", "__init__.py">>, <<"p", "a.py">>, <<"p", "a", "b.py">>, <<"a.py">>,
    search_dir("g") \o <<"a.py">>, search_dir("g") \o <<"a", "__init__.py">>,
    search_dir("h") \o <<"a.py">> }

Configs ==
  { [gopath |-> <<"g", "h">>, modname |-> <<"p">>, script |-> <<"p", "__init__.py">>],
    [gopath |-> <<"g", "h">>, modname |-> <<"p", "s">>, script |-> <<"p", "s.py">>],
    [gopath |-> <<"g", "h">>, modname |-> <<"p">>, script |-> <<"__init__.py">>],
    [gopath |-> <<"g">>, modname |-> <<"s">>, script |-> <<"s.py">>],
    [gopath |-> <<>>, modname |-> <<"p">>, script |-> <<"p", "__init__.py">>] }

ModNames == { <<"a">>, <<"a", "b">>, <<"b">> }

PlainAliases ==
  { [name |-> n, asname |-> a] :
      n \in { <<"a">>, <<"a", "b">>, <<"__go__", "x">> }, a \in {"", "x"} }

MemberAliases ==
  { [name |-> "b", asname |-> ""], [name |-> "b", asname |-> "y"],
    [name |-> "c", asname |-> ""], [name |-> "*", asname |-> ""] }

FromModules == { <<"a">>, <<"__go__", "x">>, <<"__future__">> }

ImportNodes ==
  { [kind |-> "Import", module |-> None, names |-> s] :
      s \in SeqsUpTo(PlainAliases, MaxNames) }

ImportFromNodes ==
  { [kind |-> "ImportFrom", module |-> m, names |-> s] :
      m \in FromModules, s \in SeqsUpTo(MemberAliases, MaxNames) }

NoNode == [kind |-> "", module |-> None, names |-> <<>>]

NoResult == [full_name |-> None, script |-> None]

\* What an earlier `import z` left in the visitor's list.
Earlier == add_binding(Import(<<"z">>, FALSE), Import_MODULE, "z", 0)

ImportIdle ==
  /\ fs = {} /\ config = <<>> /\ path = <<>> /\ imports = <<>>
  /\ node = NoNode /\ base = 0 /\ raised = "" /\ calls = <<>>
  /\ query = None /\ result = NoResult

WriterIdle ==
  /\ w = <<>> /\ todo = <<>> /\ regions = <<>> /\ left = <<>> /\ ops = 0
  /\ invoked = <<>>

RunIdle ==
  /\ block_ = <<>> /\ body_ = <<>> /\ prog = <<>> /\ phase = "" /\ pc = 0
  /\ piE = FALSE /\ frame = <<>> /\ ret = ""

ImportInit ==
  /\ fs \in SUBSET Files
  /\ config \in Configs
  /\ path = Path_init(config.gopath, config.modname, config.script)
  /\ imports \in { <<>>, <<Earlier>> }
  /\ node = NoNode /\ base = 0 /\ raised = "" /\ calls = <<>>
  /\ query = None /\ result = NoResult
  /\ WriterIdle /\ RunIdle

\* Nothing has been called on the objects yet.
Fresh == node = NoNode /\ query = None

ResolveImport(modname) ==
  /\ Fresh
  /\ query' = modname
  /\ result' = resolve_import(path, modname)
  /\ UNCHANGED <<fs, config, path, imports, node, base, raised, calls>>
  /\ UNCHANGED <<writerVars, runVars>>

Visited(n, st) ==
  /\ node' = n
  /\ base' = Len(imports)
  /\ imports' = st.imports
  /\ raised' = st.raised
  /\ calls' = st.calls
  /\ UNCHANGED <<fs, config, path, query, result>>
  /\ UNCHANGED <<writerVars, runVars>>

VisitImport(n) == Fresh /\ Visited(n, visit_Import(path, n, imports))

VisitImportFrom(n) == Fresh /\ Visited(n, visit_ImportFrom(path, n, imports))

ImportNext ==
  \/ \E modname \in ModNames : ResolveImport(modname)
  \/ \E n \in ImportNodes : VisitImport(n)
  \/ \E n \in ImportFromNodes : VisitImportFrom(n)

SpecImport == ImportInit /\ [][ImportNext]_vars

(***************************************************************************)
(* Properties of the import specification                                  *)
(***************************************************************************)

\* The Imports the last visit appended.
Appended == SubSeq(imports, base + 1, Len(imports))

Dots(name) == Cardinality(DOMAIN name) - 1

AbsoluteName(name) == resolve_import(path, name).full_name

Resolves(name) == AbsoluteName(name) # None

PlainVisited == node.kind = "Import"

\* C1: every name of a plain import that was resolved appended exactly one
\* Import, named by the absolute name the resolver gives, with exactly one
\* MODULE binding whose alias is the asname when there is one and the FIRST
\* dotted component of the written name otherwise.
C1_BindsFirstComponent ==
  PlainVisited =>
    /\ raised = "" => Len(Appended) = Len(node.names)
    /\ \A k \in 1..Len(Appended) :
         LET alias == node.names[k]
             imp == Appended[k]
         IN /\ imp.name = AbsoluteName(alias.name)
            /\ Len(imp.bindings) = 1
            /\ imp.bindings[1].bind_type = Import_MODULE
            /\ imp.bindings[1].alias =
                 (IF alias.asname # "" THEN alias.asname ELSE alias.name[1])

\* C2 as written: the value of a plain import's binding is 0 when aliased and
\* dots(absolute) - dots(written) + 1 when not.
C2_StripCountAsWritten ==
  PlainVisited =>
    \A k \in 1..Len(Appended) :
      LET alias == node.names[k]
          imp == Appended[k]
      IN imp.bindings[1].value =
           (IF alias.asname # "" THEN 0
            ELSE Dots(imp.name) - Dots(alias.name) + 1)

\* C2, amended: the value of a plain import's binding is the number of dots
\* of the absolute name when the import is aliased, and the number of dots
\* of the absolute name minus the number of dots of the written name when it
\* is not.
C2_StripCount ==
  PlainVisited =>
    \A k \in 1..Len(Appended) :
      LET alias == node.names[k]
          imp == Appended[k]
      IN imp.bindings[1].value =
           (IF alias.asname # "" THEN Dots(imp.name)
            ELSE Dots(imp.name) - Dots(alias.name))

\* One statement imported a dotted name unaliased, resolved relative to the
\* package so that the absolute name is longer than the written one, and a
\* name under an alias whose absolute name is dotted.
C2_Witness ==
  /\ PlainVisited /\ raised = ""
  /\ \E k \in 1..Len(Appended) :
       /\ node.names[k].asname = ""
       /\ Len(node.names[k].name) > 1
       /\ Len(Appended[k].name) > Len(node.names[k].name)
  /\ \E k \in 1..Len(Appended) :
       node.names[k].asname # "" /\ Len(Appended[k].name) > 1

\* C4: resolve_import returns the package-relative result whenever the
\* compiling module has an enclosing package and the name is found in the
\* package directory; otherwise the first search-path directory, in order,
\* that holds the name; otherwise (None, None).
HasPackage ==
  \/ Last(config.script) = "__init__.py"
  \/ /\ Len(config.modname) > 1
     /\ Front(config.script) \o <<"__init__.py">> \in fs

PackageName ==
  IF Last(config.script) = "__init__.py" THEN config.modname
  ELSE Front(config.modname)

FirstDirWith(modname) ==
  { i \in 1..Len(config.gopath) :
      /\ find_script(search_dir(config.gopath[i]), modname) # None
      /\ \A j \in 1..(i - 1) :
           find_script(search_dir(config.gopath[j]), modname) = None }

C4_PackageRelativeFirst ==
  query # None =>
    LET inPackage == find_script(Front(config.script), query)
    IN IF HasPackage /\ inPackage # None
       THEN result = [full_name |-> PackageName \o query, script |-> inPackage]
       ELSE IF FirstDirWith(query) # {}
       THEN \E i \in FirstDirWith(query) :
              result = [full_name |-> query,
                        script |-> find_script(search_dir(config.gopath[i]), query)]
       ELSE result = NoResult

\* A from-import that reaches the per-name loop of visit_ImportFrom.
MemberVisited ==
  /\ node.kind = "ImportFrom"
  /\ \A i \in 1..Len(node.names) : node.names[i].name # "*"
  /\ node.module # <<"__future__">>
  /\ ~(Len(node.module) >= 2 /\ node.module[1] = "__go__")

IsSubmodule(i) == Resolves(Append(node.module, node.names[i].name))

LocalName(i) ==
  IF node.names[i].asname # "" THEN node.names[i].asname ELSE node.names[i].name

\* The statement's names, in order, that are (sub = TRUE) or are not
\* (sub = FALSE) submodules of node.module.
RECURSIVE NamesThat(_, _)
NamesThat(sub, i) ==
  IF i > Len(node.names) THEN <<>>
  ELSE IF IsSubmodule(i) = sub THEN <<i>> \o NamesThat(sub, i + 1)
  ELSE NamesThat(sub, i + 1)

RECURSIVE Where(_, _, _)
Where(s, i, member) ==
  IF i > Len(s) THEN <<>>
  ELSE IF (s[i].bindings # <<>> /\ s[i].bindings[1].bind_type = Import_MEMBER) = member
  THEN <<s[i]>> \o Where(s, i + 1, member)
  ELSE Where(s, i + 1, member)

\* The Imports of node.module among those appended, and the others.
MemberImports == Where(Appended, 1, TRUE)

ModuleImports == Where(Appended, 1, FALSE)

ModuleCalls == { k \in 1..Len(calls) : calls[k] = node.module }

\* A from-import of a module that is not native.
FromVisited ==
  /\ node.kind = "ImportFrom"
  /\ ~(Len(node.module) >= 2 /\ node.module[1] = "__go__")

\* C5: one non-native from-import statement resolves its module at most
\* once, right after the probe of the first name that is no submodule; it
\* appends at most one Import for the module, which carries one MEMBER
\* binding (alias -> remote name) per name that is no submodule, in statement
\* order; and every name that is a submodule gets an Import of its own with a
\* single MODULE binding.  (A statement with a wildcard, or of __future__,
\* resolves and appends nothing.)
C5_ModuleResolvedOnce ==
  FromVisited =>
    LET members == NamesThat(FALSE, 1)
        subs == NamesThat(TRUE, 1)
    IN /\ Cardinality(ModuleCalls) <= 1
       /\ \A k \in ModuleCalls :
            /\ members # <<>>
            /\ k = members[1] + 1
            /\ calls[k - 1] = Append(node.module, node.names[members[1]].name)
       /\ Len(MemberImports) <= 1
       /\ raised = "" =>
            \A m \in 1..Len(MemberImports) :
              /\ MemberImports[m].name = AbsoluteName(node.module)
              /\ MemberImports[m].bindings =
                   [j \in 1..Len(members) |->
                      [bind_type |-> Import_MEMBER,
                       alias |-> LocalName(members[j]),
                       value |-> node.names[members[j]].name]]
       /\ raised = "" /\ MemberVisited =>
            /\ Len(MemberImports) = (IF members = <<>> THEN 0 ELSE 1)
            /\ Len(ModuleImports) = Len(subs)
            /\ \A j \in 1..Len(subs) :
                 /\ ModuleImports[j].name =
                      AbsoluteName(Append(node.module, node.names[subs[j]].name))
                 /\ Len(ModuleImports[j].bindings) = 1
                 /\ ModuleImports[j].bindings[1].bind_type = Import_MODULE
                 /\ ModuleImports[j].bindings[1].alias = LocalName(subs[j])

\* A statement with two names that are no submodules returned, and both
\* bindings sit on the one Import of its module.
C5_Witness ==
  /\ MemberVisited /\ raised = ""
  /\ Len(NamesThat(FALSE, 1)) = 2
  /\ Len(MemberImports) = 1
  /\ Len(MemberImports[1].bindings) = 2

HasNative == \E i \in 1..Len(node.names) :
               Len(node.names[i].name) >= 2 /\ node.names[i].name[1] = "__go__"

HasWildcard == \E i \in 1..Len(node.names) : node.names[i].name = "*"

\* C6 as written: a plain import with a native name, a from-import with a
\* wildcard and any import whose module name does not resolve all end in
\* ImportError.
C6_ErrorsAsWritten ==
  /\ PlainVisited /\ HasNative => raised = "ImportError"
  /\ node.kind = "ImportFrom" /\ HasWildcard => raised = "ImportError"
  /\ PlainVisited /\ (\E i \in 1..Len(node.names) : ~Resolves(node.names[i].name))
       => raised = "ImportError"
  /\ node.kind = "ImportFrom" /\ ~Resolves(node.module) => raised = "ImportError"

\* C6, amended: a plain import with a native name, a from-import with a
\* wildcard, a plain import one of whose names does not resolve, and a
\* from-import of a module that is neither __future__ nor native, that does
\* not resolve and one of whose names is no submodule of it, all end in
\* ImportError.
C6_Errors ==
  /\ PlainVisited /\ HasNative => raised = "ImportError"
  /\ node.kind = "ImportFrom" /\ HasWildcard => raised = "ImportError"
  /\ PlainVisited /\ (\E i \in 1..Len(node.names) : ~Resolves(node.names[i].name))
       => raised = "ImportError"
  /\ MemberVisited /\ ~Resolves(node.module) /\ NamesThat(FALSE, 1) # <<>>
       => raised = "ImportError"

\* A from-import whose module does not resolve reached a name that is no
\* submodule, asked the resolver for the module and ended in ImportError.
C6_Witness ==
  /\ MemberVisited /\ raised = "ImportError"
  /\ ~Resolves(node.module) /\ ModuleCalls # {}

(***************************************************************************)
(* Writer                                                                  *)
(*                                                                         *)
(* A line of text is a record: tabs, the number of tab characters it       *)
(* starts with, and what follows them, k (the kind of Go line) with its    *)
(* arguments a and s.  The kind "" is the empty line.  A text is the       *)
(* sequence of lines that output.split('\n') yields.  Names that the code  *)
(* sorts (temporaries, imported modules) are numbers ordered like them.    *)
(***************************************************************************)

Line(k, a, s) == [tabs |-> 0, k |-> k, a |-> a, s |-> s]

Tab(line) == [line EXCEPT !.tabs = @ + 1]

Writer_init == [out |-> <<>>, indent_level |-> 0]

indent(self, n) == [self EXCEPT !.indent_level = @ + n]

dedent(self, n) == [self EXCEPT !.indent_level = @ - n]

\* '\t' * indent_level is the empty string when indent_level is negative.
RECURSIVE write_lines(_, _, _)
write_lines(self, output, i) ==
  IF i > Len(output) THEN self
  ELSE IF output[i].k # ""
  THEN write_lines(
         [self EXCEPT !.out = Append(@,
            [output[i] EXCEPT !.tabs = Max(self.indent_level, 0) + @])],
         output, i + 1)
  ELSE write_lines(self, output, i + 1)

write(self, output) == write_lines(self, output, 1)

\* indent_block up to its yield, and from its yield on: the generator is
\* resumed normally, or the exception raised in the with body is thrown into
\* it at the yield, which no handler encloses.
indent_block_enter(self, n) == indent(self, n)

indent_block_exit(self, n, exc) == IF exc THEN self ELSE dedent(self, n)

\* The statements a Writer method executes, in order.
Do_write(output) == [op |-> "write", n |-> 0, output |-> output]

Do_enter(n) == [op |-> "enter", n |-> n, output |-> <<>>]

Do_exit(n) == [op |-> "exit", n |-> n, output |-> <<>>]

exec(self, stmt) ==
  CASE stmt.op = "write" -> write(self, stmt.output)
    [] stmt.op = "enter" -> indent_block_enter(self, stmt.n)
    [] stmt.op = "exit" -> indent_block_exit(self, stmt.n, FALSE)

RECURSIVE run(_, _)
run(self, script) ==
  IF script = <<>> THEN self ELSE run(exec(self, Head(script)), Tail(script))

case_arms(checkpoints) ==
  [i \in 1..Len(checkpoints) |->
     Do_write(<<Line("case_goto", checkpoints[i], "")>>)]

\* block_.checkpoints is the sequence in which the loop iterates over it.
write_block(block, body) ==
  << Do_write(<<Line("var_piE", 0, "")>>),
     Do_write(<<Line("for", 0, "")>>),
     Do_enter(1),
     Do_write(<<Line("switch", 0, "")>>),
     Do_write(<<Line("case_0", 0, "")>>) >>
  \o case_arms(block.checkpoints) \o
  << Do_write(<<Line("default_panic", 0, "")>>),
     Do_write(<<Line("end", 0, "")>>),
     Do_enter(-1),
     Do_write(body),
     Do_exit(-1),
     Do_write(<<Line("return_nil_nil", 0, "")>>),
     Do_exit(1),
     Do_write(<<Line("end", 0, "")>>),
     Do_write(<<Line("return_nil_piE", 0, "")>>) >>

RECURSIVE sorted(_)
sorted(S) ==
  IF S = {} THEN <<>>
  ELSE LET least == CHOOSE x \in S : \A y \in S : x <= y
       IN <<least>> \o sorted(S \ {least})

\* imports maps each absolute name to the alias of its package.
write_import_block(imps) ==
  IF DOMAIN imps = {} THEN <<>>
  ELSE LET names == sorted(DOMAIN imps)
       IN << Do_write(<<Line("import_open", 0, "")>>), Do_enter(1) >>
          \o [i \in 1..Len(names) |->
                Do_write(<<Line("import_entry", names[i], imps[names[i]])>>)]
          \o << Do_exit(1), Do_write(<<Line("import_close", 0, "")>>) >>

write_label(label) ==
  << Do_enter(-1), Do_write(<<Line("label", label, "")>>), Do_exit(-1) >>

write_checked_call2(result_name, call) ==
  << Do_write(<< Line("if_call", result_name, call),
                 Tab(Line("continue", 0, "")),
                 Line("end", 0, "") >>) >>

\* write_checked_call1 without the continue.
write_checked_call1_no_continue(call) ==
  << Do_write(<< Line("if_call", 0, call), Line("end", 0, "") >>) >>

write_checked_call1(call) ==
  << Do_write(<< Line("if_call", 0, call),
                 Tab(Line("continue", 0, "")),
                 Line("end", 0, "") >>) >>

all_temps(block) == block.free_temps \cup block.used_temps

\* The orders sorted(all_temps, key=lambda t: t.name) can give: it is
\* ascending in the names and leaves equal names in the set's own order.
sorted_by_name(S) ==
  { t \in [1..Cardinality(S) -> S] :
      /\ \A x \in S : \E i \in DOMAIN t : t[i] = x
      /\ \A i, j \in DOMAIN t : i < j => t[i].name <= t[j].name }

write_temp_decls(temps) ==
  [i \in 1..Len(temps) |->
     Do_write(<< Line("var", temps[i].name, temps[i].type_),
                 Line("use", temps[i].name, "") >>)]

(***************************************************************************)
(* The writer specification: a new Writer, on which a caller calls the     *)
(* methods one after the other and opens and leaves indent_block regions.  *)
(* A method runs statement by statement, so that the states inside it are  *)
(* states of the specification; no other call starts before it is done.    *)
(***************************************************************************)

\* The number of calls the caller makes on the Writer.
MaxOps == 3

\* The largest n a caller passes to indent_block.
MaxIndent == 2

Temp(name, type_) == [name |-> name, type_ |-> type_]

Block(checkpoints, free_temps, used_temps) ==
  [checkpoints |-> checkpoints, free_temps |-> free_temps,
   used_temps |-> used_temps]

NoBlock == Block(<<>>, {}, {})

Texts ==
  { << Line("stmt", 0, "") >>,
    << Line("stmt", 0, ""), Line("", 0, ""), Tab(Line("stmt", 1, "")) >> }

TempSets == { {}, {Temp(1, "A")}, {Temp(1, "B"), Temp(2, "A")} }

WriterBlocks ==
  { Block(c, f, u) : c \in { <<>>, <<1>>, <<0, 1>> }, f \in TempSets, u \in TempSets }

ImportMaps == { <<>>, <<"a">>, <<"a", "b">> }

NoRegion == [n |-> 0, before |-> 0, after |-> 0, exc |-> FALSE]

NoCall == [method |-> "", block |-> NoBlock, start |-> 0]

WriterInit ==
  /\ w = Writer_init
  /\ todo = <<>> /\ regions = <<>> /\ left = NoRegion /\ ops = 0
  /\ invoked = NoCall
  /\ ImportIdle /\ RunIdle

CanCall == todo = <<>> /\ ops < MaxOps

Called(method, block, script) ==
  /\ CanCall
  /\ todo' = script
  /\ ops' = ops + 1
  /\ invoked' = [method |-> method, block |-> block, start |-> Len(w.out)]
  /\ UNCHANGED <<w, regions, left>>
  /\ UNCHANGED <<importVars, runVars>>

CallWrite(output) == Called("write", NoBlock, <<Do_write(output)>>)

CallWriteBlock(block, body) == Called("write_block", block, write_block(block, body))

CallWriteImportBlock(imps) ==
  Called("write_import_block", NoBlock, write_import_block(imps))

CallWriteLabel(label) == Called("write_label", NoBlock, write_label(label))

CallWriteCheckedCall1 ==
  Called("write_checked_call1", NoBlock, write_checked_call1("f()"))

CallWriteCheckedCall2 ==
  Called("write_checked_call2", NoBlock, write_checked_call2(1, "f()"))

CallWriteTempDecls(block) ==
  \E temps \in sorted_by_name(all_temps(block)) :
    Called("write_temp_decls", block, write_temp_decls(temps))

\* The running method executes its next statement.
Step ==
  /\ todo # <<>>
  /\ w' = exec(w, Head(todo))
  /\ todo' = Tail(todo)
  /\ UNCHANGED <<regions, left, ops, invoked>>
  /\ UNCHANGED <<importVars, runVars>>

\* The caller enters `with writer.indent_block(n):`.
EnterRegion(n) ==
  /\ CanCall
  /\ w' = indent_block_enter(w, n)
  /\ regions' = Append(regions, [n |-> n, before |-> w.indent_level])
  /\ ops' = ops + 1
  /\ UNCHANGED <<todo, left, invoked>>
  /\ UNCHANGED <<importVars, runVars>>

\* The body of the innermost region runs to its end.
LeaveRegion ==
  /\ todo = <<>> /\ regions # <<>>
  /\ LET r == Last(regions)
     IN /\ w' = indent_block_exit(w, r.n, FALSE)
        /\ left' = [n |-> r.n, before |-> r.before,
                    after |-> w'.indent_level, exc |-> FALSE]
  /\ regions' = Front(regions)
  /\ UNCHANGED <<todo, ops, invoked>>
  /\ UNCHANGED <<importVars, runVars>>

RECURSIVE unwind(_, _)
unwind(self, rs) ==
  IF rs = <<>> THEN self
  ELSE unwind(indent_block_exit(self, Last(rs).n, TRUE), Front(rs))

\* The caller's code raises inside the innermost region; the exception
\* leaves the k innermost regions before a handler of the caller catches it.
RaiseInRegion(k) ==
  /\ todo = <<>>
  /\ LET r == regions[Len(regions) - k + 1]
     IN /\ w' = unwind(w, SubSeq(regions, Len(regions) - k + 1, Len(regions)))
        /\ left' = [n |-> r.n, before |-> r.before,
                    after |-> w'.indent_level, exc |-> TRUE]
  /\ regions' = SubSeq(regions, 1, Len(regions) - k)
  /\ UNCHANGED <<todo, ops, invoked>>
  /\ UNCHANGED <<importVars, runVars>>

WriterNext ==
  \/ \E output \in Texts : CallWrite(output)
  \/ \E block \in WriterBlocks, body \in Texts : CallWriteBlock(block, body)
  \/ \E imps \in ImportMaps : CallWriteImportBlock(imps)
  \/ \E label \in 0..1 : CallWriteLabel(label)
  \/ CallWriteCheckedCall1
  \/ CallWriteCheckedCall2
  \/ \E block \in WriterBlocks : CallWriteTempDecls(block)
  \/ Step
  \/ \E n \in 0..MaxIndent : EnterRegion(n)
  \/ LeaveRegion
  \/ \E k \in 1..Len(regions) : RaiseInRegion(k)

SpecWriter == WriterInit /\ [][WriterNext]_vars

\* C3: the depth after leaving an indent_block region equals the depth
\* before entering it, whether the region ended normally or by an exception.
C3_DepthRestored == left.after = left.before

\* C10: the indentation depth is never negative, during a method as well as
\* between the calls.
C10_DepthNonNegative == w.indent_level >= 0

\* C9: write_temp_decls writes, for every name among the block's free and
\* used temporaries, exactly one `var` line, followed by its `_ =` line, and
\* writes the names in ascending order.
C9_DeclaredOnce ==
  invoked.method = "write_temp_decls" /\ todo = <<>> =>
    LET new == SubSeq(w.out, invoked.start + 1, Len(w.out))
        names == { t.name : t \in all_temps(invoked.block) }
    IN /\ \A nm \in names :
            Cardinality({ i \in DOMAIN new : new[i].k = "var" /\ new[i].a = nm }) = 1
       /\ \A i \in DOMAIN new :
            new[i].k = "var" =>
              /\ new[i].a \in names
              /\ i < Len(new) /\ new[i + 1].k = "use" /\ new[i + 1].a = new[i].a
       /\ \A i, j \in DOMAIN new : i < j => new[i].a <= new[j].a

(***************************************************************************)
(* The run specification: write_block emits the wrapper of one function,   *)
(* and the emitted Go code runs on a frame.                                *)
(*                                                                         *)
(* The body handed to write_block is what a body Writer holds after the    *)
(* lowering stage wrote, one level deep, checked calls, labels and         *)
(* piF.PushCheckpoint(n) statements.                                       *)
(***************************************************************************)

\* The largest checkpoint id.
MaxCheckpoint == 1

\* The largest number of statements in the body.
MaxBody == 4

\* The largest number of checkpoints on the frame's stack.
MaxStack == 2

Stmt(k, a) == [k |-> k, a |-> a]

Stmts ==
  { Stmt("call1", 0), Stmt("call2", 0) }
  \cup { Stmt(k, c) : k \in {"label", "push"}, c \in 0..MaxCheckpoint }

stmt_script(stmt) ==
  CASE stmt.k = "call1" -> write_checked_call1("f()")
    [] stmt.k = "call2" -> write_checked_call2(1, "f()")
    [] stmt.k = "label" -> write_label(stmt.a)
    [] stmt.k = "push" -> <<Do_write(<<Line("push", stmt.a, "")>>)>>

RECURSIVE stmts_script(_)
stmts_script(stmts) ==
  IF stmts = <<>> THEN <<>>
  ELSE stmt_script(Head(stmts)) \o stmts_script(Tail(stmts))

body_text(stmts) ==
  run(Writer_init, <<Do_enter(1)>> \o stmts_script(stmts) \o <<Do_exit(1)>>).out

Range(f) == { f[i] : i \in DOMAIN f }

\* The orders a set of checkpoints can be iterated in.
Orders(S) ==
  { c \in [1..Cardinality(S) -> S] : Range(c) = S }

\* Every checkpoint has its label in the body, once, and the body has no
\* other label: Go accepts neither a goto without its label nor a label
\* without its goto.
Labelled(stmts, S) ==
  /\ \A c \in S :
       Cardinality({ i \in DOMAIN stmts : stmts[i] = Stmt("label", c) }) = 1
  /\ \A i \in DOMAIN stmts : stmts[i].k = "label" => stmts[i].a \in S

\* The frame piF of the runtime.
Frame(state) == [state |-> state, checkpoints |-> <<>>]

State(f) == f.state

PushCheckpoint(f, c) == [f EXCEPT !.checkpoints = Append(@, c)]

PopCheckpoint(f) ==
  IF f.checkpoints = <<>> THEN [f EXCEPT !.state = -1]
  ELSE [state |-> Last(f.checkpoints), checkpoints |-> Front(f.checkpoints)]

RunInit ==
  /\ \E S \in SUBSET (0..MaxCheckpoint) :
       /\ \E c \in Orders(S) : block_ = Block(c, {}, {})
       /\ \E stmts \in UNION { [1..n -> Stmts] : n \in 0..MaxBody } :
            /\ Labelled(stmts, S)
            /\ body_ = body_text(stmts)
       /\ \E s \in {0} \cup S : frame = Frame(s)
  /\ prog = <<>> /\ phase = "emit" /\ pc = 0 /\ piE = FALSE /\ ret = ""
  /\ ImportIdle /\ WriterIdle

\* A new Writer writes the block.
Emit ==
  /\ phase = "emit"
  /\ prog' = run(Writer_init, write_block(block_, body_)).out
  /\ phase' = "run"
  /\ pc' = 1
  /\ UNCHANGED <<block_, body_, piE, frame, ret>>
  /\ UNCHANGED <<importVars, writerVars>>

\* The first line after line i that closes a brace.
RECURSIVE closing(_, _)
closing(lines, i) ==
  IF i >= Len(lines) \/ lines[i + 1].k = "end" THEN i + 1
  ELSE closing(lines, i + 1)

line_of(lines, k, a) ==
  CHOOSE i \in DOMAIN lines : lines[i].k = k /\ lines[i].a = a

\* The line after the closing brace of the loop, the last brace of the text.
after_loop(lines) ==
  1 + CHOOSE i \in DOMAIN lines :
        /\ lines[i].k = "end"
        /\ \A j \in DOMAIN lines : lines[j].k = "end" => j <= i

\* The arms of `switch piF.State()` at line i that match state s: Go takes
\* the first case that matches, and default when no case does.
matching(lines, i, s) ==
  { j \in (i + 1)..(closing(lines, i) - 1) :
      \/ lines[j].k = "case_0" /\ s = 0
      \/ lines[j].k = "case_goto" /\ lines[j].a = s }

\* Where the switch at line i takes control: a line, or 0 for the panic.
dispatch(lines, i, s) ==
  LET arms == matching(lines, i, s)
  IN IF arms = {}
     THEN (IF \E j \in (i + 1)..(closing(lines, i) - 1) : lines[j].k = "default_panic"
           THEN 0 ELSE closing(lines, i) + 1)
     ELSE LET arm == CHOOSE j \in arms : \A j2 \in arms : j <= j2
          IN IF lines[arm].k = "case_goto"
             THEN line_of(lines, "label", lines[arm].a)
             ELSE closing(lines, i) + 1

Running(k) == phase = "run" /\ pc \in DOMAIN prog /\ prog[pc].k = k

Goes(line) ==
  /\ pc' = line
  /\ UNCHANGED <<block_, body_, prog, phase, piE, frame, ret>>
  /\ UNCHANGED <<importVars, writerVars>>

\* var piE *BaseException; a label; a closing brace.
Declare ==
  /\ Running("var_piE")
  /\ piE' = FALSE
  /\ pc' = pc + 1
  /\ UNCHANGED <<block_, body_, prog, phase, frame, ret>>
  /\ UNCHANGED <<importVars, writerVars>>

Pass == (Running("label") \/ Running("end")) /\ Goes(pc + 1)

\* for ; piF.State() >= 0; ... {
LoopTest ==
  /\ Running("for")
  /\ Goes(IF State(frame) >= 0 THEN pc + 1 ELSE after_loop(prog))

Dispatch ==
  /\ Running("switch")
  /\ LET target == dispatch(prog, pc, State(frame))
     IN IF target = 0
        THEN /\ phase' = "panic"
             /\ UNCHANGED <<block_, body_, prog, pc, piE, frame, ret>>
             /\ UNCHANGED <<importVars, writerVars>>
        ELSE Goes(target)

Push ==
  /\ Running("push")
  /\ Len(frame.checkpoints) < MaxStack
  /\ frame' = PushCheckpoint(frame, prog[pc].a)
  /\ pc' = pc + 1
  /\ UNCHANGED <<block_, body_, prog, phase, piE, ret>>
  /\ UNCHANGED <<importVars, writerVars>>

\* if piE = call; piE != nil { : the call fails or not.
CheckedCall(fails) ==
  /\ Running("if_call")
  /\ piE' = fails
  /\ pc' = IF fails THEN pc + 1 ELSE closing(prog, pc) + 1
  /\ UNCHANGED <<block_, body_, prog, phase, frame, ret>>
  /\ UNCHANGED <<importVars, writerVars>>

Continue ==
  /\ Running("continue")
  /\ phase' = "post"
  /\ UNCHANGED <<block_, body_, prog, pc, piE, frame, ret>>
  /\ UNCHANGED <<importVars, writerVars>>

\* The post statement of the loop, piF.PopCheckpoint(), then its test again.
Post ==
  /\ phase = "post"
  /\ frame' = PopCheckpoint(frame)
  /\ phase' = "run"
  /\ pc' = line_of(prog, "for", 0)
  /\ UNCHANGED <<block_, body_, prog, piE, ret>>
  /\ UNCHANGED <<importVars, writerVars>>

Returned(value) ==
  /\ phase' = "done"
  /\ ret' = value
  /\ UNCHANGED <<block_, body_, prog, pc, piE, frame>>
  /\ UNCHANGED <<importVars, writerVars>>

\* return nil, nil
ReturnNil == Running("return_nil_nil") /\ Returned("success")

\* return nil, piE
ReturnPending ==
  Running("return_nil_piE") /\ Returned(IF piE THEN "failure" ELSE "success")

RunNext ==
  \/ Emit
  \/ Declare
  \/ Pass
  \/ LoopTest
  \/ Dispatch
  \/ Push
  \/ \E fails \in BOOLEAN : CheckedCall(fails)
  \/ Continue
  \/ Post
  \/ ReturnNil
  \/ ReturnPending

SpecRun == RunInit /\ [][RunNext]_vars

Checkpoints == Range(block_.checkpoints)

SwitchLine == line_of(prog, "switch", 0)

\* C7: in the dispatch emitted for the checkpoints, state 0 goes to the
\* start of the body, a checkpoint other than 0 goes to its label, any other
\* state reaches the panic, and every state that a case matches is matched by
\* exactly one case.
C7_DispatchArms ==
  phase # "emit" =>
    \A s \in 0..(MaxCheckpoint + 1) :
      LET target == dispatch(prog, SwitchLine, s)
      IN /\ s = 0 => target = closing(prog, SwitchLine) + 1
         /\ s \in Checkpoints \ {0} =>
              target # 0 /\ prog[target].k = "label" /\ prog[target].a = s
         /\ s \notin Checkpoints \cup {0} => target = 0
         /\ Cardinality(matching(prog, SwitchLine, s)) =
              (IF s \in Checkpoints \cup {0} THEN 1 ELSE 0)

\* C8: a checked call that leaves a failure in piE is followed by the loop's
\* post statement and not by the statement after the call; the post statement
\* pops the checkpoint pushed last and the loop dispatches on it again, with
\* the failure still pending; when no checkpoint is left the loop ends and
\* the function returns the failure.  A body that runs to its end with piE
\* empty returns success.
C8_FailurePropagates ==
  [][ /\ Running("if_call") /\ piE' =>
           /\ phase' = "run" /\ prog[pc'].k = "continue"
           /\ frame' = frame
      /\ Running("continue") => phase' = "post" /\ piE' /\ frame' = frame
      /\ phase = "post" =>
           /\ piE /\ piE'
           /\ IF frame.checkpoints = <<>>
              THEN frame'.state < 0
              ELSE /\ frame'.state = frame.checkpoints[Len(frame.checkpoints)]
                   /\ Len(frame'.checkpoints) = Len(frame.checkpoints) - 1
           /\ phase' = "run" /\ prog[pc'].k = "for"
      /\ Running("for") /\ piE =>
           /\ piE' /\ frame' = frame
           /\ prog[pc'].k = (IF frame.state >= 0 THEN "switch" ELSE "return_nil_piE")
      /\ Running("return_nil_piE") => ret' = "failure"
      /\ Running("return_nil_nil") /\ ~piE => ret' = "success"
    ]_vars

\* A checked call failed, the post statement popped a checkpoint, and the
\* loop is about to dispatch on it with the failure pending.
C8_Witness ==
  /\ Running("switch") /\ piE
  /\ State(frame) \in Checkpoints

====
